---- MODULE Spec2Model ----
(***************************************************************************)
(* Student registration server (backend/server.js).                        *)
(*                                                                         *)
(* The file holds two revisions of the server.  Revision 1 (lines 1-343)   *)
(* allocates serial numbers from a counter file and batches local file     *)
(* paths; revision 2 (lines 345-739) derives the serial number from the    *)
(* registration store and batches links.  The variable rev says which one  *)
(* runs.  Node runs one callback at a time, so every action below is one   *)
(* stretch of code between two awaits; an external call (database, mail,   *)
(* cloud storage, file system, browser) may succeed or fail.               *)
(***************************************************************************)
EXTENDS Integers, Sequences, FiniteSets, TLC

MaxSubs == 2
MaxFlush == 2
MaxDateLen == 5

Seed == 818
FirstSerial == 819
PadWidth == 6

VARIABLES rev, req, counterFile, store, fileQueue, files, sub, flush, emails

vars == <<rev, req, counterFile, store, fileQueue, files, sub, flush, emails>>

Subs == 1..MaxSubs
Flushes == 1..MaxFlush

(***************************************************************************)
(* Strings are sequences of one-character strings; a JavaScript number is  *)
(* an integer or NaN.                                                      *)
(***************************************************************************)
Num(n) == [nan |-> FALSE, val |-> n]
NaN == [nan |-> TRUE, val |-> 0]
\* A sign slip: the number is lowered instead of raised.
Minus(x, k) == IF x.nan THEN NaN ELSE Num(x.val - k)

Plus(x, k) == IF x.nan THEN NaN ELSE Num(x.val + k)

DigitChars == <<"0", "1", "2", "3", "4", "5", "6", "7", "8", "9">>
IsDigit(c) == \E d \in 1..10 : DigitChars[d] = c
DigitVal(c) == (CHOOSE d \in 1..10 : DigitChars[d] = c) - 1
IsSpace(c) == c = " "

CharCode(c) ==
    CASE c = " " -> 32
      [] c = "+" -> 43
      [] c = "-" -> 45
      [] IsDigit(c) -> 48 + DigitVal(c)
      [] c = "N" -> 78
      [] c = "a" -> 97
      [] OTHER -> 120

RECURSIVE NatToString(_)
NatToString(n) ==
    IF n < 10 THEN <<DigitChars[n + 1]>>
    ELSE NatToString(n \div 10) \o <<DigitChars[(n % 10) + 1]>>

\* Number.prototype.toString()
NumToString(x) ==
    IF x.nan THEN <<"N", "a", "N">>
    ELSE IF x.val < 0 THEN <<"-">> \o NatToString(-x.val)
    ELSE NatToString(x.val)

\* String.prototype.padStart(w, c)
RECURSIVE PadStart(_, _, _)
PadStart(s, w, c) == IF Len(s) >= w THEN s ELSE PadStart(<<c>> \o s, w, c)

RECURSIVE TrimStart(_)
TrimStart(s) == IF s # <<>> /\ IsSpace(Head(s)) THEN TrimStart(Tail(s)) ELSE s

RECURSIVE DigitPrefix(_)
DigitPrefix(s) ==
    IF s # <<>> /\ IsDigit(Head(s)) THEN <<Head(s)>> \o DigitPrefix(Tail(s)) ELSE <<>>

RECURSIVE DigitsValue(_, _)
DigitsValue(s, acc) ==
    IF s = <<>> THEN acc ELSE DigitsValue(Tail(s), 10 * acc + DigitVal(Head(s)))

\* parseInt(s, 10): leading blanks, an optional sign, then the longest run of
\* digits; NaN when there is no digit.
ParseInt(s) ==
    LET t == TrimStart(s)
        signed == t # <<>> /\ Head(t) \in {"-", "+"}
        u == IF signed THEN Tail(t) ELSE t
        ds == DigitPrefix(u)
    IN  IF ds = <<>> THEN NaN
        ELSE IF signed /\ Head(t) = "-" THEN Num(-DigitsValue(ds, 0))
        ELSE Num(DigitsValue(ds, 0))

\* Binary string order, as the store sorts serialNumber.
RECURSIVE StrLess(_, _)
StrLess(a, b) ==
    IF b = <<>> THEN FALSE
    ELSE IF a = <<>> THEN TRUE
    ELSE IF Head(a) = Head(b) THEN StrLess(Tail(a), Tail(b))
    ELSE CharCode(Head(a)) < CharCode(Head(b))

FormatSerial(x) == PadStart(NumToString(x), PadWidth, "0")

(***************************************************************************)
(* The fields of a request body are JavaScript values: a string, a number  *)
(* or undefined (the field is absent).                                     *)
(***************************************************************************)
Str(s) == [type |-> "string", str |-> s]
Undefined == [type |-> "undefined", str |-> <<>>]
SomeNumber == [type |-> "number", str |-> <<>>]

\* String.prototype.split(sep), sep one character.
RECURSIVE Split(_, _)
Split(s, sep) ==
    IF s = <<>> THEN << <<>> >>
    ELSE LET rest == Split(Tail(s), sep)
         IN  IF Head(s) = sep THEN << <<>> >> \o rest
             ELSE << <<Head(s)>> \o Head(rest) >> \o Tail(rest)

\* The parts are put back month first.
FormatDateMonthFirst(v) ==
    IF v.type # "string" \/ v.str = <<>> THEN Str(<<>>)
    ELSE LET parts == Split(v.str, "-")
         IN  IF Len(parts) # 3 THEN v
             ELSE Str(parts[2] \o <<"-">> \o parts[3] \o <<"-">> \o parts[1])

\* formatDate inside generateCertificate
FormatDate(v) ==
    IF v.type # "string" \/ v.str = <<>> THEN Str(<<>>)
    ELSE LET parts == Split(v.str, "-")
         IN  IF Len(parts) # 3 THEN v
             ELSE Str(parts[3] \o <<"-">> \o parts[2] \o <<"-">> \o parts[1])

\* x.toUpperCase() and x.replace(...) throw a TypeError unless x is a string.
HasStringMethods(v) == v.type = "string"

\* The body the registration form sends.
DefaultBody ==
    [applicantName |-> Str(<<"A">>), fatherName |-> Str(<<"F">>),
     courseName |-> Str(<<"C">>),
     fromDate |-> Str(<<"2", "0", "2", "4", "-", "0", "5", "-", "0", "7">>),
     submissionDate |-> Undefined, serialNumber |-> Undefined]

\* submissionDate: { type: Date, default: Date.now }.  A string that is no
\* date fails the cast and with it the save; an absent field gets the default.
CastsToDate(v) ==
    v.type = "string" => \A i \in 1..Len(v.str) : IsDigit(v.str[i]) \/ v.str[i] = "-"
ServerNow == [server |-> TRUE, date |-> Undefined]
PersistedDate(v) ==
    IF v.type = "undefined" THEN ServerNow ELSE [server |-> FALSE, date |-> v]

(***************************************************************************)
(* State                                                                   *)
(***************************************************************************)
NoUrl == <<"null">>
Url(kind, s) == <<"url", kind, s>>
PdfPath(kind, s) == <<kind, s>>
ReportPath(f) == <<"report", f>>

\* serial_number.txt: absent, or its text.
NoFile == [exists |-> FALSE, data |-> <<>>]
FileWith(d) == [exists |-> TRUE, data |-> d]
CounterFiles ==
    {NoFile, FileWith(<<>>), FileWith(<<"x">>), FileWith(<<"8", "2", "0">>),
     FileWith(<<"4", "2", "x">>)}

SubInit ==
    [pc |-> "idle", cur |-> NaN, fallback |-> FALSE, serial |-> <<>>,
     certUrl |-> NoUrl, appUrl |-> NoUrl,
     certStart |-> Undefined,
     steps |-> <<>>, resp |-> 0, failedAt |-> "none", error |-> "none",
     mail |-> "none",
     duringFlush |-> FALSE]

FlushInit ==
    [pc |-> "idle", html |-> <<>>, outcome |-> "none", kept |-> <<>>,
     enqDuring |-> FALSE]

\* Revision 2 after start-up.
Init ==
    /\ rev = 2
    /\ req = [s \in Subs |-> DefaultBody]
    /\ counterFile = NoFile
    /\ store = <<>>
    /\ fileQueue = <<>>
    /\ files = {}
    /\ sub = [s \in Subs |-> SubInit]
    /\ flush = [f \in Flushes |-> FlushInit]
    /\ emails = <<>>

\* Either revision after start-up; revision 1 finds any counter file.
InitSeq ==
    /\ rev \in {1, 2}
    /\ req = [s \in Subs |-> DefaultBody]
    /\ counterFile \in IF rev = 1 THEN CounterFiles ELSE {NoFile}
    /\ store = <<>>
    /\ fileQueue = <<>>
    /\ files = {}
    /\ sub = [s \in Subs |-> SubInit]
    /\ flush = [f \in Flushes |-> FlushInit]
    /\ emails = <<>>

\* Bodies a client can post: the form's own, one with a submissionDate (a
\* date, or text that is no date), one with a serialNumber, and bodies with a
\* name absent or empty.
Bodies ==
    {DefaultBody,
     [DefaultBody EXCEPT !.submissionDate = Str(<<"2", "0", "0", "0">>)],
     [DefaultBody EXCEPT !.submissionDate = Str(<<"x">>)],
     [DefaultBody EXCEPT !.serialNumber = Str(<<"0", "0", "0", "0", "0", "1">>)],
     [DefaultBody EXCEPT !.applicantName = Undefined],
     [DefaultBody EXCEPT !.fatherName = Undefined],
     [DefaultBody EXCEPT !.courseName = Undefined],
     [DefaultBody EXCEPT !.applicantName = Str(<<>>)]}

\* Revision 2 after start-up, with the bodies of the requests to come.
InitBody ==
    /\ rev = 2
    /\ req \in [Subs -> Bodies]
    /\ counterFile = NoFile
    /\ store = <<>>
    /\ fileQueue = <<>>
    /\ files = {}
    /\ sub = [s \in Subs |-> SubInit]
    /\ flush = [f \in Flushes |-> FlushInit]
    /\ emails = <<>>

\* Values of the fromDate field: every text of digits and dashes up to
\* MaxDateLen characters, the date the form sends by default, a number, and
\* the field absent.
DateChars == {"1", "2", "-"}
DateStrings == UNION {[1..n -> DateChars] : n \in 0..MaxDateLen}
DateInputs ==
    {Str(d) : d \in DateStrings} \cup {DefaultBody.fromDate, SomeNumber, Undefined}

\* Revision 2 after start-up, the requests to come carrying one fromDate.
InitDate ==
    /\ rev = 2
    /\ req \in {[s \in Subs |-> [DefaultBody EXCEPT !.fromDate = d]] : d \in DateInputs}
    /\ counterFile = NoFile
    /\ store = <<>>
    /\ fileQueue = <<>>
    /\ files = {}
    /\ sub = [s \in Subs |-> SubInit]
    /\ flush = [f \in Flushes |-> FlushInit]
    /\ emails = <<>>

InFlight(f) == flush[f].pc \notin {"idle", "done"}
AnyFlushInFlight == \E f \in Flushes : InFlight(f)

\* No request is being handled.
Quiet == \A s \in Subs : sub[s].pc \in {"idle", "done"}
Arrives(s) ==
    /\ sub[s].pc = "idle"
    /\ IF s = 1 THEN TRUE ELSE sub[s - 1].pc # "idle"

Step(s, name) == Append(sub[s].steps, name)

\* The handler's catch block: respond 500 with the error's message.
Fail(s, at) ==
    [sub EXCEPT ![s].pc = "done", ![s].resp = 500, ![s].failedAt = at,
                ![s].error = "Error"]

\* What a render can throw: an error of the browser or the file system, and a
\* TypeError when a field it calls a string method on is no string.
RenderErrors(renders) == IF renders THEN {"Error"} ELSE {"Error", "TypeError"}

(***************************************************************************)
(* Revision 2: POST /api/submit-form                                       *)
(***************************************************************************)
\* Registration.findOne().sort({ serialNumber: -1 })
LastRegistration ==
    CHOOSE i \in 1..Len(store) :
        \A j \in 1..Len(store) : j # i => StrLess(store[j].serial, store[i].serial)

StoreHasSerial == store # <<>> /\ store[LastRegistration].serial # <<>>

StoreNextSerial ==
    IF StoreHasSerial
    THEN FormatSerial(Plus(ParseInt(store[LastRegistration].serial), 1))
    ELSE FormatSerial(Num(FirstSerial))

\* The request arrives and getNextSerialNumber queries the store.
GetNextSerialNumber(s) ==
    /\ rev = 2
    /\ Arrives(s)
    /\ \/ sub' = [sub EXCEPT ![s].pc = "cert",
                             ![s].serial = StoreNextSerial,
                             ![s].fallback = ~StoreHasSerial,
                             ![s].steps = Step(s, "alloc")]
       \/ sub' = Fail(s, "alloc")
    /\ UNCHANGED <<rev, req, counterFile, store, fileQueue, files, flush, emails>>

\* const fullFormData = { ...req.body, serialNumber }
FullFormData(s) == [req[s] EXCEPT !.serialNumber = Str(sub[s].serial)]

\* The certificate text upper-cases the two names and the course name, and
\* the file name is made from the applicant's name.
CertificateRenders(s) ==
    /\ HasStringMethods(FullFormData(s).applicantName)
    /\ HasStringMethods(FullFormData(s).fatherName)
    /\ HasStringMethods(FullFormData(s).courseName)

\* The form fields are filled with (field || ''); the file name is made from
\* the applicant's name.
ApplicationFormRenders(s) == HasStringMethods(FullFormData(s).applicantName)

\* uploadToCloudinary without its try/catch: a failed upload is raised.
GenerateCertificateUploadThrows(s) ==
    /\ rev = 2
    /\ sub[s].pc = "cert"
    /\ \/ /\ CertificateRenders(s)
          /\ sub' = [sub EXCEPT ![s].pc = "app", ![s].certUrl = Url("cert", s),
                                ![s].certStart = FormatDate(FullFormData(s).fromDate),
                                ![s].steps = Step(s, "renderCert") \o <<"uploadCert">>]
          /\ files' = files \cup {PdfPath("cert", s)}
       \/ /\ CertificateRenders(s)
          /\ sub' = [Fail(s, "uploadCert") EXCEPT
                        ![s].steps = Step(s, "renderCert") \o <<"uploadCert">>]
          /\ files' = files \cup {PdfPath("cert", s)}
       \/ /\ \E e \in RenderErrors(CertificateRenders(s)) :
                sub' = [Fail(s, "renderCert") EXCEPT ![s].error = e]
          /\ UNCHANGED files
    /\ UNCHANGED <<rev, req, counterFile, store, fileQueue, flush, emails>>

\* generateCertificate: page.pdf writes the file, then uploadToCloudinary
\* returns the URL, or null when the upload fails.
GenerateCertificate(s) ==
    /\ rev = 2
    /\ sub[s].pc = "cert"
    /\ \/ \E url \in {Url("cert", s), NoUrl} :
             /\ CertificateRenders(s)
             /\ sub' = [sub EXCEPT ![s].pc = "app", ![s].certUrl = url,
                                   ![s].certStart = FormatDate(FullFormData(s).fromDate),
                                   ![s].steps = Step(s, "renderCert") \o <<"uploadCert">>]
             /\ files' = files \cup {PdfPath("cert", s)}
       \/ /\ \E e \in RenderErrors(CertificateRenders(s)) :
                sub' = [Fail(s, "renderCert") EXCEPT ![s].error = e]
          /\ UNCHANGED files
    /\ UNCHANGED <<rev, req, counterFile, store, fileQueue, flush, emails>>

GenerateApplicationFormPdf(s) ==
    /\ rev = 2
    /\ sub[s].pc = "app"
    /\ \/ \E url \in {Url("app", s), NoUrl} :
             /\ ApplicationFormRenders(s)
             /\ sub' = [sub EXCEPT ![s].pc = "save", ![s].appUrl = url,
                                   ![s].steps = Step(s, "renderApp") \o <<"uploadApp">>]
             /\ files' = files \cup {PdfPath("app", s)}
       \/ /\ \E e \in RenderErrors(ApplicationFormRenders(s)) :
                sub' = [Fail(s, "renderApp") EXCEPT ![s].error = e]
          /\ UNCHANGED files
    /\ UNCHANGED <<rev, req, counterFile, store, fileQueue, flush, emails>>

\* The unique index is missing: no serial number is ever refused.
UniqueIndexMissing(serial) == FALSE

\* serialNumber: { type: String, unique: true }
SerialTaken(serial) == \E i \in 1..Len(store) : store[i].serial = serial

\* new Registration({ ...fullFormData, certificateUrl, applicationFormUrl })
NewRegistration(s) ==
    [serial |-> FullFormData(s).serialNumber.str, sub |-> s,
     certUrl |-> sub[s].certUrl, appUrl |-> sub[s].appUrl,
     submissionDate |-> PersistedDate(FullFormData(s).submissionDate)]

\* A failed save is swallowed and the handler goes on.
SaveSwallowsError(s) ==
    /\ sub[s].pc = "save"
    /\ \/ /\ ~SerialTaken(NewRegistration(s).serial)
          /\ CastsToDate(FullFormData(s).submissionDate)
          /\ store' = Append(store, NewRegistration(s))
          /\ sub' = [sub EXCEPT ![s].pc = "email", ![s].steps = Step(s, "save")]
       \/ /\ sub' = [sub EXCEPT ![s].pc = "email", ![s].failedAt = "save"]
          /\ UNCHANGED store
    /\ UNCHANGED <<rev, req, counterFile, fileQueue, files, flush, emails>>

\* newRegistration.save()
Save(s) ==
    /\ sub[s].pc = "save"
    /\ \/ /\ ~SerialTaken(NewRegistration(s).serial)
          /\ CastsToDate(FullFormData(s).submissionDate)
          /\ store' = Append(store, NewRegistration(s))
          /\ sub' = [sub EXCEPT ![s].pc = "email", ![s].steps = Step(s, "save")]
       \/ /\ sub' = Fail(s, "save")
          /\ UNCHANGED store
    /\ UNCHANGED <<rev, req, counterFile, fileQueue, files, flush, emails>>

\* sendStudentEmail without its try/catch: a failure reaches the handler.
SendStudentEmailThrows(s) ==
    /\ sub[s].pc = "email"
    /\ \/ /\ PdfPath("app", s) \in files
          /\ sub' = [sub EXCEPT ![s].pc = "enqueue", ![s].mail = "sent",
                                ![s].steps = Step(s, "email")]
       \/ sub' = [Fail(s, "email") EXCEPT ![s].mail = "failed"]
    /\ UNCHANGED <<rev, req, counterFile, store, fileQueue, files, flush, emails>>

\* sendStudentEmail: reads the attachment, sends; every failure is caught.
SendStudentEmail(s) ==
    /\ sub[s].pc = "email"
    /\ \E ok \in BOOLEAN :
          /\ ok => PdfPath("app", s) \in files
          /\ sub' = [sub EXCEPT ![s].pc = "enqueue",
                                ![s].mail = IF ok THEN "sent" ELSE "failed",
                                ![s].steps = Step(s, "email")]
    /\ UNCHANGED <<rev, req, counterFile, store, fileQueue, files, flush, emails>>

QueueEntry(s) ==
    [sub |-> s, certificateUrl |-> sub[s].certUrl, applicationFormUrl |-> sub[s].appUrl]

\* fileQueue.push({...})
Enqueue(s) ==
    /\ rev = 2
    /\ sub[s].pc = "enqueue"
    /\ fileQueue' = Append(fileQueue, QueueEntry(s))
    /\ sub' = [sub EXCEPT ![s].pc = "unlinkCert",
                          ![s].duringFlush = AnyFlushInFlight,
                          ![s].steps = Step(s, "enqueue")]
    /\ flush' = [f \in Flushes |->
                    IF InFlight(f) THEN [flush[f] EXCEPT !.enqDuring = TRUE]
                    ELSE flush[f]]
    /\ UNCHANGED <<rev, req, counterFile, store, files, emails>>

\* await fs.unlink(certificate.path)
UnlinkCertificate(s) ==
    /\ sub[s].pc = "unlinkCert"
    /\ \/ /\ PdfPath("cert", s) \in files
          /\ files' = files \ {PdfPath("cert", s)}
          /\ sub' = [sub EXCEPT ![s].pc = "unlinkApp",
                                ![s].steps = Step(s, "unlinkCert")]
       \/ /\ sub' = Fail(s, "unlinkCert")
          /\ UNCHANGED files
    /\ UNCHANGED <<rev, req, counterFile, store, fileQueue, flush, emails>>

\* The last unlink is not awaited: the response goes out with the file there.
UnlinkApplicationFormNotAwaited(s) ==
    /\ sub[s].pc = "unlinkApp"
    /\ sub' = [sub EXCEPT ![s].pc = "done", ![s].resp = 200,
                          ![s].steps = Step(s, "unlinkApp") \o <<"respond">>]
    /\ UNCHANGED <<rev, req, counterFile, store, fileQueue, files, flush, emails>>

\* await fs.unlink(applicationForm.path); res.status(200)
UnlinkApplicationForm(s) ==
    /\ sub[s].pc = "unlinkApp"
    /\ \/ /\ PdfPath("app", s) \in files
          /\ files' = files \ {PdfPath("app", s)}
          /\ sub' = [sub EXCEPT ![s].pc = "done", ![s].resp = 200,
                                ![s].steps = Step(s, "unlinkApp") \o <<"respond">>]
       \/ /\ sub' = Fail(s, "unlinkApp")
          /\ UNCHANGED files
    /\ UNCHANGED <<rev, req, counterFile, store, fileQueue, flush, emails>>

(***************************************************************************)
(* Revision 2: sendBatchedFacultyEmail, started by cron.schedule           *)
(***************************************************************************)
\* The catch block of sendBatchedFacultyEmail: log and return.
FlushFailed(f) ==
    [flush EXCEPT ![f].pc = "done", ![f].outcome = "failed"]

\* The length test is missing: an empty queue is reported like any other.
TickWithoutEmptyTest(f) ==
    /\ flush[f].pc = "idle"
    /\ IF f = 1 THEN TRUE ELSE flush[f - 1].pc # "idle"
    /\ flush' = [flush EXCEPT ![f].pc = "report"]
    /\ UNCHANGED <<rev, req, counterFile, store, fileQueue, files, sub, emails>>

\* A scheduler tick calls sendBatchedFacultyEmail; nothing looks at whether an
\* earlier call is still running.  An empty queue ends the call at once.
Tick(f) ==
    /\ flush[f].pc = "idle"
    /\ IF f = 1 THEN TRUE ELSE flush[f - 1].pc # "idle"
    /\ flush' = IF fileQueue = <<>>
                 THEN [flush EXCEPT ![f].pc = "done", ![f].outcome = "noop"]
                 ELSE [flush EXCEPT ![f].pc = "report"]
    /\ UNCHANGED <<rev, req, counterFile, store, fileQueue, files, sub, emails>>

\* Registration.find, workbook.xlsx.writeFile, fs.readFile; then the list of
\* links is built from the queue as it is now and sgMail.send is called.
FlushBuildMail(f) ==
    /\ flush[f].pc = "report"
    /\ \/ /\ flush' = [flush EXCEPT ![f].pc = "send", ![f].html = fileQueue]
          /\ files' = files \cup {ReportPath(f)}
       \/ /\ flush' = FlushFailed(f)
          /\ UNCHANGED files
    /\ UNCHANGED <<rev, req, counterFile, store, fileQueue, sub, emails>>

\* await sgMail.send(mailOptions)
FlushSend(f) ==
    /\ flush[f].pc = "send"
    /\ \/ /\ emails' = Append(emails, [flush |-> f, items |-> flush[f].html])
          /\ flush' = [flush EXCEPT ![f].pc = "unlink"]
       \/ /\ flush' = [flush EXCEPT ![f].pc = "done", ![f].outcome = "sendFailed",
                                    ![f].kept = fileQueue]
          /\ UNCHANGED emails
    /\ UNCHANGED <<rev, req, counterFile, store, fileQueue, files, sub>>

\* await fs.unlink(tempExcelPath); fileQueue = []
FlushCleanup(f) ==
    /\ flush[f].pc = "unlink"
    /\ \/ /\ ReportPath(f) \in files
          /\ files' = files \ {ReportPath(f)}
          /\ fileQueue' = <<>>
          /\ flush' = [flush EXCEPT ![f].pc = "done", ![f].outcome = "sent"]
       \/ /\ flush' = [flush EXCEPT ![f].pc = "done", ![f].outcome = "sentNotCleared"]
          /\ UNCHANGED <<files, fileQueue>>
    /\ UNCHANGED <<rev, req, counterFile, store, sub, emails>>

(***************************************************************************)
(* Revision 1: the counter file, and the uploader that deletes the file    *)
(***************************************************************************)
\* The request arrives; fs.readFile and parseInt, or 818 when the read throws.
ReadSerialFile(s) ==
    /\ rev = 1
    /\ Arrives(s)
    /\ sub' = [sub EXCEPT ![s].pc = "writeSerial",
                          ![s].cur = IF counterFile.exists
                                     THEN ParseInt(counterFile.data)
                                     ELSE Num(Seed),
                          ![s].fallback = \/ ~counterFile.exists
                                          \/ ParseInt(counterFile.data).nan]
    /\ UNCHANGED <<rev, req, counterFile, store, fileQueue, files, flush, emails>>

\* nextNumber = currentNumber + 1; fs.writeFile; return the padded string.
WriteSerialFile(s) ==
    /\ rev = 1
    /\ sub[s].pc = "writeSerial"
    /\ \/ /\ counterFile' = FileWith(NumToString(Plus(sub[s].cur, 1)))
          /\ sub' = [sub EXCEPT ![s].pc = "cert",
                                ![s].serial = FormatSerial(Plus(sub[s].cur, 1)),
                                ![s].steps = Step(s, "alloc")]
       \/ /\ sub' = Fail(s, "alloc")
          /\ UNCHANGED counterFile
    /\ UNCHANGED <<rev, req, store, fileQueue, files, flush, emails>>

\* uploadToCloudinary of revision 1: upload, then unlink the local file; the
\* URL when both succeed, null otherwise.  What it returns and whether the
\* file is still there.
UploadOutcomes(kind, s) ==
    {[url |-> Url(kind, s), kept |-> FALSE],
     [url |-> NoUrl, kept |-> TRUE]}

GenerateCertificateRev1(s) ==
    /\ rev = 1
    /\ sub[s].pc = "cert"
    /\ \/ \E o \in UploadOutcomes("cert", s) :
             /\ CertificateRenders(s)
             /\ sub' = [sub EXCEPT ![s].pc = "app", ![s].certUrl = o.url,
                                   ![s].certStart = FormatDate(FullFormData(s).fromDate),
                                   ![s].steps = Step(s, "renderCert") \o <<"uploadCert">>]
             /\ files' = IF o.kept THEN files \cup {PdfPath("cert", s)} ELSE files
       \/ /\ \E e \in RenderErrors(CertificateRenders(s)) :
                sub' = [Fail(s, "renderCert") EXCEPT ![s].error = e]
          /\ UNCHANGED files
    /\ UNCHANGED <<rev, req, counterFile, store, fileQueue, flush, emails>>

GenerateApplicationFormPdfRev1(s) ==
    /\ rev = 1
    /\ sub[s].pc = "app"
    /\ \/ \E o \in UploadOutcomes("app", s) :
             /\ ApplicationFormRenders(s)
             /\ sub' = [sub EXCEPT ![s].pc = "save", ![s].appUrl = o.url,
                                   ![s].steps = Step(s, "renderApp") \o <<"uploadApp">>]
             /\ files' = IF o.kept THEN files \cup {PdfPath("app", s)} ELSE files
       \/ /\ \E e \in RenderErrors(ApplicationFormRenders(s)) :
                sub' = [Fail(s, "renderApp") EXCEPT ![s].error = e]
          /\ UNCHANGED files
    /\ UNCHANGED <<rev, req, counterFile, store, fileQueue, flush, emails>>

\* fileQueue.push twice; res.status(200)
EnqueueRev1(s) ==
    /\ rev = 1
    /\ sub[s].pc = "enqueue"
    /\ fileQueue' = fileQueue \o
          <<[sub |-> s, type |-> "certificate", path |-> PdfPath("cert", s)],
            [sub |-> s, type |-> "application", path |-> PdfPath("app", s)]>>
    /\ sub' = [sub EXCEPT ![s].pc = "done", ![s].resp = 200,
                          ![s].steps = Step(s, "enqueue") \o <<"respond">>]
    /\ UNCHANGED <<rev, req, counterFile, store, files, flush, emails>>

\* Revision 1: the attachments are made from the queued paths before the
\* first await.
TickRev1(f) ==
    /\ rev = 1
    /\ flush[f].pc = "idle"
    /\ IF f = 1 THEN TRUE ELSE flush[f - 1].pc # "idle"
    /\ flush' = IF fileQueue = <<>>
                 THEN [flush EXCEPT ![f].pc = "done", ![f].outcome = "noop"]
                 ELSE [flush EXCEPT ![f].pc = "report", ![f].html = fileQueue]
    /\ UNCHANGED <<rev, req, counterFile, store, fileQueue, files, sub, emails>>

\* Registration.find and workbook.xlsx.writeFile, outside the try block: a
\* failure ends the call.
FlushReportRev1(f) ==
    /\ rev = 1
    /\ flush[f].pc = "report"
    /\ \/ /\ flush' = [flush EXCEPT ![f].pc = "send"]
          /\ files' = files \cup {ReportPath(f)}
       \/ /\ flush' = FlushFailed(f)
          /\ UNCHANGED files
    /\ UNCHANGED <<rev, req, counterFile, store, fileQueue, sub, emails>>

\* transporter.sendMail reads every attachment from its path and fails when
\* one is missing; after a send the queued files are unlinked (not awaited,
\* errors logged).
FlushSendRev1(f) ==
    /\ rev = 1
    /\ flush[f].pc = "send"
    /\ \/ /\ \A i \in 1..Len(flush[f].html) : flush[f].html[i].path \in files
          /\ ReportPath(f) \in files
          /\ emails' = Append(emails, [flush |-> f, items |-> flush[f].html])
          /\ files' = files \ {fileQueue[i].path : i \in 1..Len(fileQueue)}
          /\ flush' = [flush EXCEPT ![f].pc = "unlink"]
       \/ /\ flush' = [flush EXCEPT ![f].pc = "done", ![f].outcome = "sendFailed",
                                    ![f].kept = fileQueue]
          /\ UNCHANGED <<emails, files>>
    /\ UNCHANGED <<rev, req, counterFile, store, fileQueue, sub>>

(***************************************************************************)
(* Specifications                                                          *)
(***************************************************************************)
\* Revision 2 with requests and scheduler ticks in any interleaving.
Next ==
    \/ \E s \in Subs : GetNextSerialNumber(s)
    \/ \E s \in Subs : GenerateCertificate(s)
    \/ \E s \in Subs : GenerateApplicationFormPdf(s)
    \/ \E s \in Subs : Save(s)
    \/ \E s \in Subs : SendStudentEmail(s)
    \/ \E s \in Subs : Enqueue(s)
    \/ \E s \in Subs : UnlinkCertificate(s)
    \/ \E s \in Subs : UnlinkApplicationForm(s)
    \/ \E f \in Flushes : Tick(f)
    \/ \E f \in Flushes : FlushBuildMail(f)
    \/ \E f \in Flushes : FlushSend(f)
    \/ \E f \in Flushes : FlushCleanup(f)

Spec == Init /\ [][Next]_vars

\* Revision 2, the request handler alone, requests in any interleaving.
NextSubmit ==
    \/ \E s \in Subs : GetNextSerialNumber(s)
    \/ \E s \in Subs : GenerateCertificate(s)
    \/ \E s \in Subs : GenerateApplicationFormPdf(s)
    \/ \E s \in Subs : Save(s)
    \/ \E s \in Subs : SendStudentEmail(s)
    \/ \E s \in Subs : Enqueue(s)
    \/ \E s \in Subs : UnlinkCertificate(s)
    \/ \E s \in Subs : UnlinkApplicationForm(s)

SpecSubmit == Init /\ [][NextSubmit]_vars

\* Revision 2, the request handler alone, for any bodies.
SpecBody == InitBody /\ [][NextSubmit]_vars

\* Revision 1 after start-up: no counter file yet, or one left by an earlier
\* run.
InitRev1 ==
    /\ rev = 1
    /\ req = [s \in Subs |-> DefaultBody]
    /\ counterFile \in {NoFile, FileWith(<<"8", "2", "0">>)}
    /\ store = <<>>
    /\ fileQueue = <<>>
    /\ files = {}
    /\ sub = [s \in Subs |-> SubInit]
    /\ flush = [f \in Flushes |-> FlushInit]
    /\ emails = <<>>

\* Revision 1 with requests and scheduler ticks in any interleaving.
NextRev1 ==
    \/ \E s \in Subs : ReadSerialFile(s)
    \/ \E s \in Subs : WriteSerialFile(s)
    \/ \E s \in Subs : GenerateCertificateRev1(s)
    \/ \E s \in Subs : GenerateApplicationFormPdfRev1(s)
    \/ \E s \in Subs : Save(s)
    \/ \E s \in Subs : SendStudentEmail(s)
    \/ \E s \in Subs : EnqueueRev1(s)
    \/ \E f \in Flushes : TickRev1(f)
    \/ \E f \in Flushes : FlushReportRev1(f)
    \/ \E f \in Flushes : FlushSendRev1(f)
    \/ \E f \in Flushes : FlushCleanup(f)

SpecRev1 == InitRev1 /\ [][NextRev1]_vars

\* Revision 2, the requests up to the certificate, for any fromDate.
NextDate ==
    \/ \E s \in Subs : GetNextSerialNumber(s)
    \/ \E s \in Subs : GenerateCertificate(s)

SpecDate == InitDate /\ [][NextDate]_vars

\* A request arrives when no other is being handled.
ArriveAlone(s) == Quiet /\ GetNextSerialNumber(s)
ArriveAloneRev1(s) == Quiet /\ ReadSerialFile(s)

\* Either revision, one request after another: a request arrives only when
\* no other is being handled.
NextSeq ==
    \/ \E s \in Subs : ArriveAlone(s)
    \/ \E s \in Subs : ArriveAloneRev1(s)
    \/ \E s \in Subs : WriteSerialFile(s)
    \/ \E s \in Subs : GenerateCertificate(s)
    \/ \E s \in Subs : GenerateCertificateRev1(s)
    \/ \E s \in Subs : GenerateApplicationFormPdf(s)
    \/ \E s \in Subs : GenerateApplicationFormPdfRev1(s)
    \/ \E s \in Subs : Save(s)
    \/ \E s \in Subs : SendStudentEmail(s)
    \/ \E s \in Subs : Enqueue(s)
    \/ \E s \in Subs : EnqueueRev1(s)
    \/ \E s \in Subs : UnlinkCertificate(s)
    \/ \E s \in Subs : UnlinkApplicationForm(s)

SpecSeq == InitSeq /\ [][NextSeq]_vars

(***************************************************************************)
(* Properties of the batch flush (revision 2)                              *)
(***************************************************************************)
Enqueued(s) == \E i \in 1..Len(sub[s].steps) : sub[s].steps[i] = "enqueue"
InQueue(s) == \E i \in 1..Len(fileQueue) : fileQueue[i].sub = s
ListedIn(s, k) == \E i \in 1..Len(emails[k].items) : emails[k].items[i].sub = s
TimesListed(s) == Cardinality({k \in 1..Len(emails) : ListedIn(s, k)})

\* C1: starting from an empty queue, after K submissions have enqueued, a
\* single flush whose send succeeds, with no enqueue while it runs, ends with
\* the queue empty and exactly one batch email sent, listing the K entries.
C1_FlushDeliversAll ==
    [][\A f \in Flushes :
          (/\ flush[f].pc = "unlink"
           /\ flush'[f].pc = "done"
           /\ ~flush[f].enqDuring
           /\ \A g \in Flushes \ {f} : flush[g].pc = "idle")
          => /\ fileQueue' = <<>>
             /\ Len(emails') = 1
             /\ Len(emails'[1].items) = Cardinality({s \in Subs : Enqueued(s)})]_vars

\* C2: the entries the queue holds when a flush has failed at the send are
\* neither dropped nor duplicated afterwards: each stays pending until a
\* batch email lists it, and no more than one batch email lists it.
C2_FailedFlushRetries ==
    \A f \in Flushes :
        flush[f].outcome = "sendFailed" =>
            \A i \in 1..Len(flush[f].kept) :
                LET s == flush[f].kept[i].sub
                IN  /\ InQueue(s) \/ TimesListed(s) >= 1
                    /\ TimesListed(s) <= 1

\* C3: an entry enqueued while a flush is in flight is never lost: it is
\* listed in a batch email or it is still in the pending queue.
C3_ConcurrentEnqueueKept ==
    \A s \in Subs :
        sub[s].duringFlush => InQueue(s) \/ TimesListed(s) >= 1

\* C5: at no time are two runs of sendBatchedFacultyEmail in progress.
C5_NoOverlappingFlush ==
    Cardinality({f \in Flushes : InFlight(f)}) <= 1

(***************************************************************************)
(* Properties of the request handler                                       *)
(***************************************************************************)
Saved(s) == \E i \in 1..Len(store) : store[i].sub = s
Has(s, name) == \E i \in 1..Len(sub[s].steps) : sub[s].steps[i] = name
Pos(s, name) == CHOOSE i \in 1..Len(sub[s].steps) : sub[s].steps[i] = name
Before(s, a, b) == Has(s, a) /\ Has(s, b) /\ Pos(s, a) < Pos(s, b)
Allocated(s) == sub[s].serial # <<>>
TriedSave(s) == Has(s, "save") \/ sub[s].failedAt = "save"
TempFilesGone(s) == PdfPath("cert", s) \notin files /\ PdfPath("app", s) \notin files

\* The steps of a request that ends with 200, in the order the handler of
\* revision 2 takes them.
HandlerOrder ==
    <<"alloc", "renderCert", "uploadCert", "renderApp", "uploadApp", "save",
      "email", "enqueue", "unlinkCert", "unlinkApp", "respond">>

SerialLess(a, b) ==
    LET x == ParseInt(a)
        y == ParseInt(b)
    IN  ~x.nan /\ ~y.nan /\ x.val < y.val

C6_UniqueSerials ==
    /\ \A i, j \in 1..Len(store) : i # j => store[i].serial # store[j].serial
    /\ \A s, t \in Subs :
          (/\ s # t
           /\ Allocated(s)
           /\ sub[s].serial = sub[t].serial
           /\ Saved(s)
           /\ TriedSave(t))
          => /\ ~Saved(t)
             /\ sub[t].failedAt = "save"
             /\ sub[t].resp = 500

C6_Witness ==
    \E s, t \in Subs :
        /\ s # t
        /\ Allocated(s)
        /\ sub[s].serial = sub[t].serial
        /\ Saved(s)
        /\ sub[t].failedAt = "save"

\* C7: when the counter source is missing or corrupt (no counter file, text
\* that parses to no number, an empty store), the serial number allocated is
\* "000819".
C7_FallbackSerial ==
    \A s \in Subs :
        (sub[s].fallback /\ Allocated(s))
            => sub[s].serial = <<"0", "0", "0", "8", "1", "9">>

\* C8 as stated: a request that ends with 200 has allocated, rendered the
\* certificate, rendered the application form, only then uploaded the two
\* files, then saved, mailed the student, enqueued, deleted both temporary
\* files and responded.
C8_ClaimedOrder ==
    \A s \in Subs :
        sub[s].resp = 200 =>
            /\ Before(s, "alloc", "renderCert")
            /\ Before(s, "renderCert", "renderApp")
            /\ Before(s, "renderApp", "uploadCert")
            /\ Before(s, "renderApp", "uploadApp")
            /\ Before(s, "uploadCert", "save")
            /\ Before(s, "uploadApp", "save")
            /\ Before(s, "save", "email")
            /\ Before(s, "email", "enqueue")
            /\ Before(s, "enqueue", "unlinkCert")
            /\ Before(s, "enqueue", "unlinkApp")
            /\ Before(s, "unlinkCert", "respond")
            /\ Before(s, "unlinkApp", "respond")
            /\ TempFilesGone(s)

\* C8 amended: a request that ends with 200 has allocated, rendered and
\* uploaded the certificate, rendered and uploaded the application form,
\* saved, mailed the student, enqueued, deleted both temporary files and
\* responded, in this order; each upload follows its own render, the save
\* precedes the enqueue, and both files are gone when the response is sent.
C8_HandlerOrder ==
    \A s \in Subs :
        sub[s].resp = 200 =>
            /\ sub[s].steps = HandlerOrder
            /\ Saved(s)
            /\ TempFilesGone(s)

C8_Witness ==
    \E s \in Subs : sub[s].resp = 200 /\ Has(s, "respond")

\* What a request has done when the named step fails.
StepsBefore(at) ==
    CASE at = "alloc" -> <<>>
      [] at = "renderCert" -> SubSeq(HandlerOrder, 1, 1)
      [] at = "renderApp" -> SubSeq(HandlerOrder, 1, 3)
      [] at = "save" -> SubSeq(HandlerOrder, 1, 5)

\* C9: when allocation, a render or the save fails, no later step of that
\* request runs, the request puts nothing in the pending queue and nothing
\* in the store, and it answers 500.
C9_FailureAborts ==
    \A s \in Subs :
        sub[s].failedAt \in {"alloc", "renderCert", "renderApp", "save"} =>
            /\ sub[s].pc = "done"
            /\ sub[s].resp = 500
            /\ sub[s].steps = StepsBefore(sub[s].failedAt)
            /\ sub[s].mail = "none"
            /\ ~InQueue(s)
            /\ ~Saved(s)

C9_Witness ==
    \E s \in Subs :
        /\ sub[s].failedAt = "save"
        /\ sub[s].resp = 500
        /\ fileQueue # <<>>

\* C10: a failed student email does not end the request: the handler goes
\* on to enqueue the entry, the registration stays in the store, the only
\* later failures are those of the two unlink calls, and the request answers
\* 200 when these succeed.
C10_StudentEmailNotFatal ==
    \A s \in Subs :
        sub[s].mail = "failed" =>
            /\ sub[s].failedAt \in {"none", "unlinkCert", "unlinkApp"}
            /\ Saved(s)
            /\ sub[s].pc # "enqueue" => (Enqueued(s) /\ InQueue(s))
            /\ (sub[s].pc = "done" /\ sub[s].failedAt = "none") => sub[s].resp = 200
            /\ sub[s].resp = 500 => sub[s].failedAt # "none"

C10_Witness ==
    \E s \in Subs :
        /\ sub[s].mail = "failed"
        /\ sub[s].resp = 200
        /\ InQueue(s)
        /\ Saved(s)

(***************************************************************************)
(* Uploads, request fields and temporary files                             *)
(***************************************************************************)
Record(s) == store[CHOOSE i \in 1..Len(store) : store[i].sub = s]
Entry(s) == fileQueue[CHOOSE i \in 1..Len(fileQueue) : fileQueue[i].sub = s]
UploadFailed(s) ==
    \/ Has(s, "uploadCert") /\ sub[s].certUrl = NoUrl
    \/ Has(s, "uploadApp") /\ sub[s].appUrl = NoUrl

\* C11: a failed upload is never raised: no request fails at an upload; the
\* request goes on with null as the URL, the saved record and the queue
\* entry carry exactly the two values the uploads returned (null or the
\* URL), and the request answers 200 unless a later step fails.
C11_UploadFailureNotFatal ==
    \A s \in Subs :
        /\ sub[s].failedAt \notin {"uploadCert", "uploadApp"}
        /\ Has(s, "uploadCert") => sub[s].certUrl \in {Url("cert", s), NoUrl}
        /\ Has(s, "uploadApp") => sub[s].appUrl \in {Url("app", s), NoUrl}
        /\ Saved(s) => /\ Record(s).certUrl = sub[s].certUrl
                       /\ Record(s).appUrl = sub[s].appUrl
        /\ InQueue(s) => /\ Entry(s).certificateUrl = sub[s].certUrl
                         /\ Entry(s).applicationFormUrl = sub[s].appUrl
        /\ (UploadFailed(s) /\ sub[s].pc = "done" /\ sub[s].failedAt = "none")
              => /\ sub[s].resp = 200
                 /\ Saved(s)
                 /\ Enqueued(s)
        /\ (UploadFailed(s) /\ sub[s].resp = 500)
              => sub[s].failedAt \in {"renderApp", "save", "unlinkCert", "unlinkApp"}

C11_Witness ==
    \E s \in Subs :
        /\ sub[s].certUrl = NoUrl
        /\ sub[s].appUrl = Url("app", s)
        /\ sub[s].resp = 200
        /\ Saved(s)
        /\ Record(s).certUrl = NoUrl
        /\ Record(s).appUrl = Url("app", s)
        /\ InQueue(s)

\* C12: a call of sendBatchedFacultyEmail that finds the queue empty returns
\* at once: it never reaches the store query or the report file, no email is
\* sent, no file is written, and the queue is still empty.
C12_EmptyFlushIsNoop ==
    [][\A f \in Flushes :
          (flush[f].pc = "idle" /\ flush'[f].pc # "idle" /\ fileQueue = <<>>)
          => /\ flush'[f].pc = "done"
             /\ flush'[f].outcome = "noop"
             /\ flush'[f].html = <<>>
             /\ emails' = emails
             /\ files' = files
             /\ store' = store
             /\ fileQueue' = <<>>]_vars

C12_Witness ==
    \E f \in Flushes :
        /\ flush[f].pc = "done"
        /\ flush[f].outcome = "noop"
        /\ fileQueue = <<>>
        /\ ReportPath(f) \notin files
        /\ \E s \in Subs : sub[s].resp = 200

\* C13: the timestamp of every saved record is the server's time at the
\* save, whatever the request body holds, and its serial number is the one
\* the allocator returned to the handler.
C13_ServerAssigned ==
    \A i \in 1..Len(store) :
        /\ store[i].submissionDate = ServerNow
        /\ store[i].serial = sub[store[i].sub].serial

\* C15: no render throws over an absent field: no request ends with the
\* TypeError of a string method called on a field the body does not hold.
C15_RenderAbsentFields ==
    \A s \in Subs : sub[s].error # "TypeError"

(***************************************************************************)
(* Revision 1: the counter file and the queued paths                       *)
(***************************************************************************)
\* C14: calls of the file-backed getNextSerialNumber that run at the same
\* time never return one serial number twice, and the number in the counter
\* file never goes down.
C14_FileAllocatorSerialized ==
    [][/\ \A s, t \in Subs :
             (s # t /\ sub'[s].serial # <<>> /\ sub'[t].serial # <<>>)
                 => sub'[s].serial # sub'[t].serial
       /\ (counterFile.exists /\ counterFile'.exists)
             => LET old == ParseInt(counterFile.data)
                    new == ParseInt(counterFile'.data)
                IN  (~old.nan /\ ~new.nan) => old.val <= new.val]_vars

\* C18: a file attached by its local path is still there when it is read:
\* the application form when the student email is sent, every queued path
\* when a flush starts on the queue, and every attachment of a flush when
\* its batch email is sent.
C18_AttachedFilesExist ==
    [][/\ \A s \in Subs :
             (sub[s].pc = "email" /\ sub'[s].pc # "email")
                 => PdfPath("app", s) \in files
       /\ \A f \in Flushes :
             (flush[f].pc = "idle" /\ flush'[f].pc = "report")
                 => \A i \in 1..Len(fileQueue) : fileQueue[i].path \in files
       /\ \A f \in Flushes :
             (flush[f].pc = "send" /\ flush'[f].pc # "send")
                 => \A i \in 1..Len(flush[f].html) : flush[f].html[i].path \in files]_vars

(***************************************************************************)
(* The dates on the certificate                                            *)
(***************************************************************************)
Dashes(x) == {i \in 1..Len(x) : x[i] = "-"}
FirstDash(x) == CHOOSE i \in Dashes(x) : \A j \in Dashes(x) : i <= j
LastDash(x) == CHOOSE i \in Dashes(x) : \A j \in Dashes(x) : j <= i
\* A text of exactly three parts separated by '-'.
ThreeParts(v) == v.type = "string" /\ Cardinality(Dashes(v.str)) = 2
\* "Y-M-D" turned into "D-M-Y".
DayFirst(x) ==
    SubSeq(x, LastDash(x) + 1, Len(x)) \o <<"-">>
        \o SubSeq(x, FirstDash(x) + 1, LastDash(x) - 1) \o <<"-">>
        \o SubSeq(x, 1, FirstDash(x) - 1)

\* C16 as stated: the start date on a rendered certificate is the fromDate
\* with its parts reversed when it is a text of three parts, and the fromDate
\* itself, unchanged, for every other value.
C16_FormatDateAsClaimed ==
    \A s \in Subs :
        Has(s, "renderCert") =>
            IF ThreeParts(req[s].fromDate)
            THEN sub[s].certStart = Str(DayFirst(req[s].fromDate.str))
            ELSE sub[s].certStart = req[s].fromDate

\* C16 amended: the start date on a rendered certificate is the fromDate
\* with its parts reversed when it is a text of three parts, the fromDate
\* itself for every other text, and the empty text when the fromDate is no
\* text at all (a number, or absent).
C16_FormatDate ==
    \A s \in Subs :
        Has(s, "renderCert") =>
            IF ThreeParts(req[s].fromDate)
            THEN sub[s].certStart = Str(DayFirst(req[s].fromDate.str))
            ELSE IF req[s].fromDate.type = "string"
            THEN sub[s].certStart = req[s].fromDate
            ELSE sub[s].certStart = Str(<<>>)

C16_Witness ==
    \E s \in Subs :
        /\ Has(s, "renderCert")
        /\ req[s].fromDate = Str(<<"2", "0", "2", "4", "-", "0", "5", "-", "0", "7">>)
        /\ sub[s].certStart = Str(<<"0", "7", "-", "0", "5", "-", "2", "0", "2", "4">>)

(***************************************************************************)
(* After the send, and after the response                                  *)
(***************************************************************************)
\* C17: when a call of sendBatchedFacultyEmail ends after its batch email
\* was sent, none of the entries the email listed is still in the queue,
\* also when the unlink of the report file failed; so no later batch email
\* lists them again.
C17_SentEntriesLeaveQueue ==
    [][\A f \in Flushes :
          (flush[f].pc = "unlink" /\ flush'[f].pc = "done")
          => \A i \in 1..Len(flush[f].html) :
                \A j \in 1..Len(fileQueue') :
                    fileQueue'[j].sub # flush[f].html[i].sub]_vars

\* C19: a finished request has answered 200 exactly when its record is in
\* the store and its entry was put in the queue; one that answered 500 has
\* left neither a record nor an entry.
C19_ResponseMatchesEffects ==
    \A s \in Subs :
        sub[s].pc = "done" =>
            /\ sub[s].resp = 200 <=> (Saved(s) /\ Enqueued(s))
            /\ sub[s].resp = 500 => (~Saved(s) /\ ~Enqueued(s))

\* C20: when a request has finished, with 200 or with 500, neither of its
\* temporary PDF files is left in the output directory.
C20_NoTempFilesLeft ==
    \A s \in Subs : sub[s].pc = "done" => TempFilesGone(s)

====
